---- MODULE Spec2Model ----
(***************************************************************************)
(* Model of doctor: the annotate decorator (doctor/_annotation.py), the    *)
(* schema builder make_schema_dict (doctor/_util.py) and the Schema        *)
(* wrapper (doctor/_schema.py).                                            *)
(*                                                                         *)
(* Python values are tagged records [t |-> <type name>, v |-> <payload>]   *)
(* so that isinstance() tests become tests of the tag and dicts become     *)
(* functions from keys to tagged values.                                   *)
(***************************************************************************)
EXTENDS Integers, Sequences, FiniteSets, TLC

VARIABLES
    pc,           \* position of the modelled control flow
    given,        \* what annotate was given and what it was applied to
    decoration,   \* how annotate(...)(func) ended, PyNone before it ran
    annotation,   \* the Annotation built by annotate(...)(func), or PyNone
    args,         \* *args of the call in progress (sequence of values)
    kwargs,       \* **kwargs of the call in progress (function name -> value)
    properties,   \* what collect_properties returned for the call in progress
    validated,    \* which validations the wrapper has run in this call
    calls,        \* how often the body of the wrapped callable ran in this call
    received,     \* the (args, kwargs) the wrapped callable was invoked with
    func_result,  \* what the wrapped callable returned in this call
    outcome,      \* how the call in progress ended (return value or exception)
    op_in,        \* input of the pure function under check
    op_out,       \* its outcome
    heap,         \* the callables of a decorator stack, by identity (index)
    top,          \* the outermost callable of the stack
    cur,          \* the callable get_wrapped, or the call chain, stands at
    trace,        \* the layers that ran in the call of the stack, in order
    stack,        \* the decorators applied so far, innermost first
    failures      \* how many earlier calls of the wrapper ended in a validation error

vars == <<pc, given, decoration, annotation, args, kwargs, properties, validated, calls,
          received, func_result, outcome, op_in, op_out, heap, top, cur,
          trace, stack, failures>>

callVars == <<args, kwargs, properties, validated, calls, received,
              func_result, outcome>>

wrapVars == <<heap, top, cur, trace, stack>>

-----------------------------------------------------------------------------
(* Bounds *)

MaxNames == 2       \* longest list of names given as a schema spec
MaxRequired == 2    \* longest list given as required_names
MaxParams == 3      \* most parameters a decorated callable declares
MaxPos == 2         \* most positional arguments of a call
MaxFuncParams == 3  \* most parameters of a function that gets decorated
MaxCallPos == 2     \* most positional arguments of a call of the wrapper
MaxCallKw == 1      \* most keyword arguments of a call of the wrapper
MaxLayers == 3      \* most decorators stacked on a function
MaxFailures == 2    \* failed calls counted before a later call

-----------------------------------------------------------------------------
(* Python values *)

PyNone == [t |-> "NoneType"]
UNSET == [t |-> "Unset"]
PyStr(s) == [t |-> "str", v |-> s]
PyBool(b) == [t |-> "bool", v |-> b]
PyInt(i) == [t |-> "int", v |-> i]
PyDict(f) == [t |-> "dict", v |-> f]
PyList(s) == [t |-> "list", v |-> s]
PyTuple(s) == [t |-> "tuple", v |-> s]
PyObject(id) == [t |-> "object", v |-> id]

\* a plain function, by what inspect.getargspec reports of it
PyFunction(arg_names, args_name, kwargs_name, default_values) ==
    [t |-> "function",
     v |-> [arg_names |-> arg_names, args_name |-> args_name,
            kwargs_name |-> kwargs_name, default_values |-> default_values]]

\* an object whose class defines __call__
PyCallable(call) == [t |-> "instance", v |-> [__call__ |-> call]]

EmptyDict == [k \in {} |-> PyNone]

\* d[key] = value on a dict payload
DictSet(d, key, value) ==
    [k \in (DOMAIN d) \cup {key} |-> IF k = key THEN value ELSE d[k]]

\* Python truthiness of the values used as required_names / default_values
Truthy(x) ==
    CASE x.t = "NoneType" -> FALSE
      [] x.t = "list" -> Len(x.v) > 0
      [] x.t = "tuple" -> Len(x.v) > 0
      [] x.t = "dict" -> DOMAIN x.v # {}
      [] x.t = "bool" -> x.v
      [] x.t = "int" -> x.v # 0
      [] x.t = "str" -> x.v # ""
      [] OTHER -> TRUE

\* how a Python call ends
Return(x) == [exc |-> "none", ret |-> x]
Raise(e) == [exc |-> e, ret |-> PyNone]

\* all sequences over S of length at most n
SeqsUpTo(S, n) == UNION {[1..k -> S] : k \in 0..n}

\* those without a repeated element (a parameter list never repeats a name)
InjSeqsUpTo(S, n) ==
    {s \in SeqsUpTo(S, n) : \A i, j \in 1..Len(s) : i # j => s[i] # s[j]}

\* all dicts with keys among K and values in V
DictsOver(K, V) == UNION {[D -> V] : D \in SUBSET K}

Range(s) == {s[i] : i \in 1..Len(s)}

-----------------------------------------------------------------------------
(* doctor/_schema.py: the schema wrapper, with the schema of the tests *)

RawSchema ==
    PyDict("definitions" :> PyDict(
        "a" :> PyDict("type" :> PyStr("string")) @@
        "b" :> PyDict("type" :> PyStr("boolean")) @@
        "c" :> PyDict("type" :> PyStr("integer")) @@
        "d" :> PyDict("type" :> PyStr("integer")) @@
        "result" :> PyDict("type" :> PyStr("integer") @@
                           "maximum" :> PyInt(2))))

\* Schema(raw_schema)
Schema(raw_schema) == [t |-> "Schema", v |-> [raw_schema |-> raw_schema]]

TestSchema == Schema(RawSchema)

DefinitionNames == DOMAIN RawSchema.v["definitions"].v

\* '#/definitions/{}'.format(name)
RefOf(name) == "#/definitions/" \o name

\* Schema.resolve(ref): the fragment ref points to, or RefResolutionError
\* (an object that is no Schema has no resolve attribute)
resolve(schema, ref) ==
    IF schema.t # "Schema" THEN Raise("AttributeError")
    ELSE LET defs == schema.v.raw_schema.v["definitions"].v
             hits == {d \in DOMAIN defs : RefOf(d) = ref}
         IN  IF hits = {} THEN Raise("RefResolutionError")
             ELSE Return(defs[CHOOSE d \in hits : TRUE])

\* the JSON type names an instance answers to (a bool is not an integer)
JsonTypes(instance) ==
    CASE instance.t = "str" -> {"string"}
      [] instance.t = "bool" -> {"boolean"}
      [] instance.t = "int" -> {"integer", "number"}
      [] instance.t = "dict" -> {"object"}
      [] instance.t = "list" -> {"array"}
      [] instance.t = "NoneType" -> {"null"}
      [] OTHER -> {}

\* schema.validator.validate(instance, fragment): the exceptions it can end
\* in, {} when the instance conforms.  '$ref' is resolved against the source
\* schema and replaces its sibling keywords; 'type', 'maximum', 'properties'
\* and 'required' are checked; 'additionalProperties': True admits anything.
RECURSIVE ValidationErrors(_, _, _)
ValidationErrors(schema, instance, fragment) ==
    LET f == fragment.v
    IN  IF "$ref" \in DOMAIN f
        THEN IF resolve(schema, f["$ref"].v).exc # "none"
             THEN {"RefResolutionError"}
             ELSE ValidationErrors(schema, instance,
                                   resolve(schema, f["$ref"].v).ret)
        ELSE (IF "type" \in DOMAIN f /\ f["type"].v \notin JsonTypes(instance)
              THEN {"ValidationError"} ELSE {})
             \cup
             (IF /\ "maximum" \in DOMAIN f
                 /\ instance.t = "int"
                 /\ instance.v > f["maximum"].v
              THEN {"ValidationError"} ELSE {})
             \cup
             (IF "properties" \in DOMAIN f /\ instance.t = "dict"
              THEN UNION {ValidationErrors(schema, instance.v[p],
                                           f["properties"].v[p]) :
                             p \in (DOMAIN f["properties"].v)
                                       \cap (DOMAIN instance.v)}
              ELSE {})
             \cup
             (IF /\ "required" \in DOMAIN f
                 /\ instance.t = "dict"
                 /\ ~(Range(f["required"].v) \subseteq DOMAIN instance.v)
              THEN {"ValidationError"} ELSE {})

-----------------------------------------------------------------------------
(* doctor/_util.py: get_wrapped, make_schema_dict *)

\* get_wrapped(func): follow _wraps to the callable without one
RECURSIVE get_wrapped(_)
get_wrapped(func) ==
    IF "_wraps" \in DOMAIN func.v THEN get_wrapped(func.v._wraps) ELSE func

\* the loop over names of the list branch: properties built so far, or the
\* error of the first name that does not resolve
\* BuildProperties without the schema.resolve(ref) check of each name
RECURSIVE BuildPropertiesUnchecked(_, _, _)
BuildPropertiesUnchecked(schema, names, props) ==
    IF names = <<>> THEN Return(PyDict(props))
    ELSE BuildPropertiesUnchecked(schema, Tail(names),
             DictSet(props, Head(names),
                     PyDict("$ref" :> PyStr(RefOf(Head(names))))))

RECURSIVE BuildProperties(_, _, _)
BuildProperties(schema, names, props) ==
    IF names = <<>> THEN Return(PyDict(props))
    ELSE LET name == Head(names)
             ref == RefOf(name)
         IN  IF resolve(schema, ref).exc # "none"
             THEN resolve(schema, ref)
             ELSE BuildProperties(schema, Tail(names),
                      DictSet(props, name, PyDict("$ref" :> PyStr(ref))))

\* make_schema_dict testing "required_names is not None" instead of its truth
make_schema_dict_required_not_none(schema, usage, names, required_names) ==
    CASE names = UNSET -> Return(UNSET)
      [] names = PyNone -> Return(PyNone)
      [] names.t = "str" ->
            LET ref == RefOf(names.v)
            IN  IF resolve(schema, ref).exc # "none"
                THEN resolve(schema, ref)
                ELSE Return(PyDict("$ref" :> PyStr(ref)))
      [] names.t = "dict" -> Return(names)
      [] names.t = "list" ->
            LET built == BuildProperties(schema, names.v, EmptyDict)
                new_schema == "type" :> PyStr("object") @@
                              "additionalProperties" :> PyBool(TRUE) @@
                              "properties" :> built.ret
            IN  IF built.exc # "none" THEN built
                ELSE IF required_names # PyNone
                     THEN Return(PyDict(DictSet(new_schema, "required",
                                                required_names)))
                     ELSE Return(PyDict(new_schema))
      [] OTHER -> Raise("TypeError")

\* make_schema_dict without the final else branch: an unsupported spec falls
\* through to "return new_schema" with nothing built
make_schema_dict_no_else(schema, usage, names, required_names) ==
    CASE names = UNSET -> Return(UNSET)
      [] names = PyNone -> Return(PyNone)
      [] names.t = "str" ->
            LET ref == RefOf(names.v)
            IN  IF resolve(schema, ref).exc # "none"
                THEN resolve(schema, ref)
                ELSE Return(PyDict("$ref" :> PyStr(ref)))
      [] names.t = "dict" -> Return(names)
      [] names.t = "list" ->
            LET built == BuildProperties(schema, names.v, EmptyDict)
                new_schema == "type" :> PyStr("object") @@
                              "additionalProperties" :> PyBool(TRUE) @@
                              "properties" :> built.ret
            IN  IF built.exc # "none" THEN built
                ELSE IF Truthy(required_names)
                     THEN Return(PyDict(DictSet(new_schema, "required",
                                                required_names)))
                     ELSE Return(PyDict(new_schema))
      [] OTHER -> Return(PyNone)

make_schema_dict(schema, usage, names, required_names) ==
    CASE names = UNSET -> Return(UNSET)
      [] names = PyNone -> Return(PyNone)
      [] names.t = "str" ->
            LET ref == RefOf(names.v)
            IN  IF resolve(schema, ref).exc # "none"
                THEN resolve(schema, ref)
                ELSE Return(PyDict("$ref" :> PyStr(ref)))
      [] names.t = "dict" -> Return(names)
      [] names.t = "list" ->
            LET built == BuildProperties(schema, names.v, EmptyDict)
                new_schema == "type" :> PyStr("object") @@
                              "additionalProperties" :> PyBool(TRUE) @@
                              "properties" :> built.ret
            IN  IF built.exc # "none" THEN built
                ELSE IF Truthy(required_names)
                     THEN Return(PyDict(DictSet(new_schema, "required",
                                                required_names)))
                     ELSE Return(PyDict(new_schema))
      [] OTHER -> Raise("TypeError")

-----------------------------------------------------------------------------
(* doctor/_annotation.py: Annotation *)

\* Annotation.__init__
Annotation(annotated_func, func, is_method, arg_names, args_name, kwargs_name, default_values, schema, args_schema, result_schema) ==
    [t |-> "Annotation",
     v |-> [annotated_func |-> annotated_func, func |-> func,
            is_method |-> is_method, arg_names |-> arg_names,
            args_name |-> args_name, kwargs_name |-> kwargs_name,
            default_values |-> default_values, schema |-> schema,
            args_schema |-> args_schema, result_schema |-> result_schema]]

\* collect_properties without the keyword branch
RECURSIVE CollectLoopPositionalOnly(_, _, _, _, _)
CollectLoopPositionalOnly(self, call_args, call_kwargs, i, props) ==
    IF i > Len(self.v.arg_names) THEN Return(PyDict(props))
    ELSE IF "properties" \notin DOMAIN self.v.args_schema.v
    THEN Raise("KeyError")
    ELSE LET name == self.v.arg_names[i]
         IN  IF name \notin DOMAIN self.v.args_schema.v["properties"].v
             THEN CollectLoopPositionalOnly(self, call_args, call_kwargs,
                                            i + 1, props)
             ELSE IF i <= Len(call_args)
             THEN CollectLoopPositionalOnly(self, call_args, call_kwargs,
                      i + 1, DictSet(props, name, call_args[i]))
             ELSE CollectLoopPositionalOnly(self, call_args, call_kwargs,
                                            i + 1, props)

\* collect_properties without the "name not in properties: continue" filter
RECURSIVE CollectLoopUnfiltered(_, _, _, _, _)
CollectLoopUnfiltered(self, call_args, call_kwargs, i, props) ==
    IF i > Len(self.v.arg_names) THEN Return(PyDict(props))
    ELSE IF "properties" \notin DOMAIN self.v.args_schema.v
    THEN Raise("KeyError")
    ELSE LET name == self.v.arg_names[i]
         IN  IF i <= Len(call_args)
             THEN CollectLoopUnfiltered(self, call_args, call_kwargs, i + 1,
                      DictSet(props, name, call_args[i]))
             ELSE IF name \in DOMAIN call_kwargs
             THEN CollectLoopUnfiltered(self, call_args, call_kwargs, i + 1,
                      DictSet(props, name, call_kwargs[name]))
             ELSE CollectLoopUnfiltered(self, call_args, call_kwargs, i + 1,
                                        props)

\* collect_properties looking in call_kwargs before call_args
RECURSIVE CollectLoopKeywordFirst(_, _, _, _, _)
CollectLoopKeywordFirst(self, call_args, call_kwargs, i, props) ==
    IF i > Len(self.v.arg_names) THEN Return(PyDict(props))
    ELSE IF "properties" \notin DOMAIN self.v.args_schema.v
    THEN Raise("KeyError")
    ELSE LET name == self.v.arg_names[i]
         IN  IF name \notin DOMAIN self.v.args_schema.v["properties"].v
             THEN CollectLoopKeywordFirst(self, call_args, call_kwargs, i + 1,
                                          props)
             ELSE IF name \in DOMAIN call_kwargs
             THEN CollectLoopKeywordFirst(self, call_args, call_kwargs, i + 1,
                      DictSet(props, name, call_kwargs[name]))
             ELSE IF i <= Len(call_args)
             THEN CollectLoopKeywordFirst(self, call_args, call_kwargs, i + 1,
                      DictSet(props, name, call_args[i]))
             ELSE CollectLoopKeywordFirst(self, call_args, call_kwargs, i + 1,
                                          props)

\* the loop of collect_properties from the i-th declared name on (i counts
\* from 1, so Python's "i < len(call_args)" reads i <= Len(call_args));
\* self.args_schema['properties'] is looked up in every iteration and raises
\* KeyError when the schema has no such key
RECURSIVE CollectLoop(_, _, _, _, _)
CollectLoop(self, call_args, call_kwargs, i, props) ==
    IF i > Len(self.v.arg_names) THEN Return(PyDict(props))
    ELSE IF "properties" \notin DOMAIN self.v.args_schema.v
    THEN Raise("KeyError")
    ELSE LET name == self.v.arg_names[i]
         IN  IF name \notin DOMAIN self.v.args_schema.v["properties"].v
             THEN CollectLoop(self, call_args, call_kwargs, i + 1, props)
             ELSE IF i <= Len(call_args)
             THEN CollectLoop(self, call_args, call_kwargs, i + 1,
                              DictSet(props, name, call_args[i]))
             ELSE IF name \in DOMAIN call_kwargs
             THEN CollectLoop(self, call_args, call_kwargs, i + 1,
                              DictSet(props, name, call_kwargs[name]))
             ELSE CollectLoop(self, call_args, call_kwargs, i + 1, props)

\* Annotation.collect_properties
collect_properties(self, call_args, call_kwargs) ==
    CollectLoop(self, call_args, call_kwargs, 1, EmptyDict)

\* s[:-k] for k > 0
DropLast(s, k) == IF Len(s) > k THEN SubSeq(s, 1, Len(s) - k) ELSE <<>>

\* create_args_schema building a schema even when no name is left
create_args_schema_no_none(schema, arg_names, default_values, is_method) ==
    LET names == IF is_method /\ arg_names # <<>> THEN Tail(arg_names)
                 ELSE arg_names
        required_arg_names ==
            IF Truthy(default_values)
            THEN DropLast(names, Len(default_values.v))
            ELSE names
    IN  make_schema_dict(schema, "args", PyList(names),
                         PyList(required_arg_names))

\* create_args_schema ignoring is_method (self is not stripped)
create_args_schema_keep_self(schema, arg_names, default_values, is_method) ==
    IF arg_names = <<>> THEN Return(PyNone)
    ELSE LET required_arg_names ==
                 IF Truthy(default_values)
                 THEN DropLast(arg_names, Len(default_values.v))
                 ELSE arg_names
         IN  make_schema_dict(schema, "args", PyList(arg_names),
                              PyList(required_arg_names))

\* Annotation.create_args_schema
create_args_schema(schema, arg_names, default_values, is_method) ==
    LET names == IF is_method /\ arg_names # <<>> THEN Tail(arg_names)
                 ELSE arg_names
    IN  IF names = <<>> THEN Return(PyNone)
        ELSE LET required_arg_names ==
                     IF Truthy(default_values)
                     THEN DropLast(names, Len(default_values.v))
                     ELSE names
             IN  make_schema_dict(schema, "args", PyList(names),
                                  PyList(required_arg_names))

\* callable(x)
callable(x) == x.t = "function" \/ x.t = "instance"

\* Annotation.create keeping the is_method it was given for callable objects
Annotation_create_unforced(_callable, schema, args_schema, result_schema, is_method) ==
    IF ~callable(_callable) THEN Raise("TypeError")
    ELSE IF schema.t # "Schema" THEN Raise("TypeError")
    ELSE LET func == IF _callable.t # "function" THEN _callable.v.__call__
                     ELSE _callable
             derived == IF args_schema = UNSET
                        THEN create_args_schema(schema, func.v.arg_names,
                                 func.v.default_values, is_method)
                        ELSE Return(args_schema)
         IN  IF derived.exc # "none" THEN derived
             ELSE Return(Annotation(_callable, func, is_method,
                                    func.v.arg_names, func.v.args_name,
                                    func.v.kwargs_name, func.v.default_values,
                                    schema, derived.ret, result_schema))

\* Annotation.create without the check that schema is a Schema
Annotation_create_any_schema(_callable, schema, args_schema, result_schema, is_method) ==
    IF ~callable(_callable) THEN Raise("TypeError")
    ELSE LET method == IF _callable.t # "function" THEN TRUE ELSE is_method
             func == IF _callable.t # "function" THEN _callable.v.__call__
                     ELSE _callable
             derived == IF args_schema = UNSET
                        THEN create_args_schema(schema, func.v.arg_names,
                                 func.v.default_values, method)
                        ELSE Return(args_schema)
         IN  IF derived.exc # "none" THEN derived
             ELSE Return(Annotation(_callable, func, method, func.v.arg_names,
                                    func.v.args_name, func.v.kwargs_name,
                                    func.v.default_values, schema, derived.ret,
                                    result_schema))

\* Annotation.create
Annotation_create(_callable, schema, args_schema, result_schema, is_method) ==
    IF ~callable(_callable) THEN Raise("TypeError")
    ELSE IF schema.t # "Schema" THEN Raise("TypeError")
    ELSE LET method == IF _callable.t # "function" THEN TRUE ELSE is_method
             func == IF _callable.t # "function" THEN _callable.v.__call__
                     ELSE _callable
             derived == IF args_schema = UNSET
                        THEN create_args_schema(schema, func.v.arg_names,
                                 func.v.default_values, method)
                        ELSE Return(args_schema)
         IN  IF derived.exc # "none" THEN derived
             ELSE Return(Annotation(_callable, func, method, func.v.arg_names,
                                    func.v.args_name, func.v.kwargs_name,
                                    func.v.default_values, schema, derived.ret,
                                    result_schema))

\* the wrapper annotate's decorator returns, as functools.wraps and with_wraps
\* leave it: it takes (*args, **kwargs) and points back to func
Wrapper(func) ==
    [t |-> "function",
     v |-> [arg_names |-> <<>>, args_name |-> PyStr("args"),
            kwargs_name |-> PyStr("kwargs"), default_values |-> PyNone,
            _decorated |-> func, _wraps |-> func]]

\* annotate(schema, args, required_args, result, is_method)(func): the
\* annotation attached to func, or the error raised while decorating
annotate(schema, args_spec, required_args, result, is_method, func) ==
    LET args_schema == make_schema_dict(schema, "args", args_spec,
                                        required_args)
        result_schema == make_schema_dict(schema, "result", result, PyNone)
    IN  IF args_schema.exc # "none" THEN args_schema
        ELSE IF result_schema.exc # "none" THEN result_schema
        ELSE IF ~callable(func) THEN Raise("TypeError")
        ELSE Annotation_create(get_wrapped(func), schema, args_schema.ret,
                               result_schema.ret, is_method)

\* whether Python can bind the call func(*args, **kwargs) to func's parameters
RECURSIVE BindOK(_, _, _)
BindOK(func, a, kw) ==
    IF func.t = "instance" THEN BindOK(func.v.__call__, <<func>> \o a, kw)
    ELSE LET names == func.v.arg_names
             n == Len(names)
             k == IF func.v.default_values = PyNone THEN 0
                  ELSE Len(func.v.default_values.v)
         IN  /\ func.v.args_name = PyNone => Len(a) <= n
             /\ func.v.kwargs_name = PyNone => DOMAIN kw \subseteq Range(names)
             /\ \A i \in 1..n :
                    /\ i <= Len(a) => names[i] \notin DOMAIN kw
                    /\ (i > Len(a) /\ i <= n - k) => names[i] \in DOMAIN kw

\* the value Python binds to parameter p of func in func(*args, **kwargs),
\* when the call binds: calling an object passes it as self to __call__
RECURSIVE ReceivedFor(_, _, _, _)
ReceivedFor(func, a, kw, p) ==
    IF func.t = "instance"
    THEN ReceivedFor(func.v.__call__, <<func>> \o a, kw, p)
    ELSE LET names == func.v.arg_names
             n == Len(names)
             i == CHOOSE j \in 1..n : names[j] = p
             k == IF func.v.default_values = PyNone THEN 0
                  ELSE Len(func.v.default_values.v)
         IN  IF i <= Len(a) THEN a[i]
             ELSE IF p \in DOMAIN kw THEN kw[p]
             ELSE func.v.default_values.v[i - (n - k)]

-----------------------------------------------------------------------------
(* Initial values of the variables a specification does not use *)

NoCall ==
    /\ args = <<>>
    /\ kwargs = EmptyDict
    /\ properties = PyNone
    /\ validated = {}
    /\ calls = 0
    /\ received = PyNone
    /\ func_result = PyNone
    /\ outcome = PyNone
    /\ failures = 0

NoOp ==
    /\ op_in = PyNone
    /\ op_out = PyNone

\* the function "def baz(results)" of the tests, decorated by nothing yet
Original == [layer |-> "baz", inner |-> 0, wraps |-> 0]

NoWraps ==
    /\ heap = <<Original>>
    /\ top = 1
    /\ cur = 0
    /\ trace = <<>>
    /\ stack = <<>>

-----------------------------------------------------------------------------
(* make_schema_dict applied to every kind of spec *)

SpecNames == {"a", "b", "bad"}

NamesInputs ==
    {UNSET, PyNone}
    \cup {PyStr(n) : n \in SpecNames \cup {"result"}}
    \cup {PyDict("type" :> PyStr("boolean")),
          PyDict("$ref" :> PyStr(RefOf("bad"))),
          PyDict(EmptyDict)}
    \cup {PyList(s) : s \in SeqsUpTo(SpecNames, MaxNames)}
    \cup {PyInt(1), PyBool(TRUE), PyObject("sentinel.invalid")}

RequiredInputs ==
    {PyNone} \cup {PyList(s) : s \in SeqsUpTo({"a", "b"}, MaxRequired)}

InitMakeSchema ==
    /\ pc = "make_schema"
    /\ given = PyNone
    /\ decoration = PyNone
    /\ annotation = PyNone
    /\ NoCall
    /\ NoWraps
    /\ op_in \in [names : NamesInputs, required_names : RequiredInputs]
    /\ op_out = PyNone

ApplyMakeSchema ==
    /\ pc = "make_schema"
    /\ op_out' = make_schema_dict(TestSchema, "args", op_in.names,
                                  op_in.required_names)
    /\ pc' = "made_schema"
    /\ UNCHANGED <<given, decoration, annotation, callVars, op_in, wrapVars, failures>>

NextMakeSchema == ApplyMakeSchema

SpecMakeSchema == InitMakeSchema /\ [][NextMakeSchema]_vars

\* the set of names a list spec lists
ListedNames(names) == {names.v[i] : i \in 1..Len(names.v)}

\* C8: make_schema_dict on a list of names that all resolve returns an object
\* schema with type 'object', additionalProperties true and properties holding
\* exactly each listed name mapped to {'$ref': '#/definitions/<name>'}; a
\* non-empty required_names is attached unchanged under 'required', and with
\* required_names None or empty the schema has no 'required' key.
C8_ListSchema ==
    (/\ pc = "made_schema"
     /\ op_in.names.t = "list"
     /\ ListedNames(op_in.names) \subseteq DefinitionNames)
    => /\ op_out.exc = "none"
       /\ op_out.ret.t = "dict"
       /\ LET d == op_out.ret.v
              req == op_in.required_names
              hasReq == req.t = "list" /\ req.v # <<>>
          IN  /\ DOMAIN d = {"type", "additionalProperties", "properties"}
                             \cup (IF hasReq THEN {"required"} ELSE {})
              /\ d["type"] = PyStr("object")
              /\ d["additionalProperties"] = PyBool(TRUE)
              /\ d["properties"].t = "dict"
              /\ DOMAIN d["properties"].v = ListedNames(op_in.names)
              /\ \A n \in ListedNames(op_in.names) :
                     d["properties"].v[n] =
                         PyDict("$ref" :> PyStr("#/definitions/" \o n))
              /\ hasReq => d["required"] = req

\* a two-name list with a required list holding a duplicate has been built
C8_Witness ==
    /\ pc = "made_schema"
    /\ op_in.names = PyList(<<"a", "b">>)
    /\ op_in.required_names = PyList(<<"a", "a">>)
    /\ op_out.exc = "none"
    /\ op_out.ret.v["required"] = PyList(<<"a", "a">>)

\* C9: make_schema_dict on a single name returns
\* {'$ref': '#/definitions/<name>'} when the name is a definition of the source
\* schema and fails with a reference-resolution error otherwise; on a list with
\* any name that is not a definition it fails with a reference-resolution
\* error and returns no schema.
C9_Resolution ==
    pc = "made_schema" =>
        /\ op_in.names.t = "str" =>
               IF op_in.names.v \in DefinitionNames
               THEN op_out = Return(PyDict("$ref" :>
                                 PyStr("#/definitions/" \o op_in.names.v)))
               ELSE op_out = Raise("RefResolutionError")
        /\ (/\ op_in.names.t = "list"
            /\ ~(ListedNames(op_in.names) \subseteq DefinitionNames))
           => op_out = Raise("RefResolutionError")

\* a list whose second name is not a definition has been refused
C9_Witness ==
    /\ pc = "made_schema"
    /\ op_in.names = PyList(<<"a", "bad">>)
    /\ op_out = Raise("RefResolutionError")

\* C10: make_schema_dict maps UNSET to UNSET and None to None, returns a dict
\* spec verbatim without resolving anything in it, and fails with a TypeError
\* for a spec that is not UNSET, None, a string, a dict or a list.
C10_OtherSpecs ==
    pc = "made_schema" =>
        /\ op_in.names = UNSET => op_out = Return(UNSET)
        /\ op_in.names = PyNone => op_out = Return(PyNone)
        /\ op_in.names.t = "dict" => op_out = Return(op_in.names)
        /\ op_in.names.t \notin {"Unset", "NoneType", "str", "dict", "list"}
           => op_out = Raise("TypeError")

\* a dict spec holding a reference to a missing definition came back verbatim
C10_Witness ==
    /\ pc = "made_schema"
    /\ op_in.names = PyDict("$ref" :> PyStr("#/definitions/bad"))
    /\ op_out = Return(op_in.names)

-----------------------------------------------------------------------------
(* create_args_schema applied to every parameter list *)

ParamNames == {"self", "a", "b", "c"}

\* default_values as inspect.getargspec reports them: None, or a tuple of k
DefaultValues(k) == IF k = 0 THEN PyNone ELSE PyTuple([i \in 1..k |-> PyInt(0)])

ArgsSchemaInputs ==
    {[arg_names |-> s, default_values |-> DefaultValues(k), is_method |-> m] :
        s \in InjSeqsUpTo(ParamNames, MaxParams), k \in 0..MaxParams,
        m \in BOOLEAN}

InitArgsSchema ==
    /\ pc = "create_args_schema"
    /\ given = PyNone
    /\ decoration = PyNone
    /\ annotation = PyNone
    /\ NoCall
    /\ NoWraps
    /\ op_in \in {i \in ArgsSchemaInputs :
                     i.default_values = PyNone
                     \/ Len(i.default_values.v) <= Len(i.arg_names)}
    /\ op_out = PyNone

ApplyArgsSchema ==
    /\ pc = "create_args_schema"
    /\ op_out' = create_args_schema(TestSchema, op_in.arg_names,
                                    op_in.default_values, op_in.is_method)
    /\ pc' = "created_args_schema"
    /\ UNCHANGED <<given, decoration, annotation, callVars, op_in, wrapVars, failures>>

NextArgsSchema == ApplyArgsSchema

SpecArgsSchema == InitArgsSchema /\ [][NextArgsSchema]_vars

\* the declared names the derived schema is about: all, or all but the leading
DeclaredNames(arg_names, is_method) ==
    IF is_method
    THEN [i \in 1..(IF Len(arg_names) > 0 THEN Len(arg_names) - 1 ELSE 0)
             |-> arg_names[i + 1]]
    ELSE arg_names

\* those names minus the trailing k ones
WithoutTrailing(names, k) ==
    [i \in 1..(IF Len(names) > k THEN Len(names) - k ELSE 0) |-> names[i]]

\* C4: with no args spec, for n declared names of which the trailing k have
\* defaults, the derived args schema declares a property for every declared
\* name (all but the leading one when is_method) and its required list is
\* those names minus the trailing k, in declaration order; when that list is
\* empty the schema has no 'required' key.
C4_DerivedArgsSchema ==
    pc = "created_args_schema" =>
        LET names == DeclaredNames(op_in.arg_names, op_in.is_method)
            k == IF op_in.default_values = PyNone THEN 0
                 ELSE Len(op_in.default_values.v)
            req == WithoutTrailing(names, k)
        IN  /\ names = <<>> => op_out = Return(PyNone)
            /\ (names # <<>> /\ Range(names) \subseteq DefinitionNames) =>
                   /\ op_out.exc = "none"
                   /\ op_out.ret.t = "dict"
                   /\ DOMAIN op_out.ret.v["properties"].v = Range(names)
                   /\ req # <<>> => /\ "required" \in DOMAIN op_out.ret.v
                                    /\ op_out.ret.v["required"] = PyList(req)
                   /\ req = <<>> => "required" \notin DOMAIN op_out.ret.v

\* a method (self, a, b=0) has got the schema of a and b with a required
C4_Witness ==
    /\ pc = "created_args_schema"
    /\ op_in.is_method
    /\ op_in.arg_names = <<"self", "a", "b">>
    /\ op_in.default_values = DefaultValues(1)
    /\ op_out.exc = "none"
    /\ DOMAIN op_out.ret.v["properties"].v = {"a", "b"}
    /\ op_out.ret.v["required"] = PyList(<<"a">>)

-----------------------------------------------------------------------------
(* collect_properties applied to every annotation and call *)

CallValues == {PyStr("foo"), PyBool(TRUE), PyInt(1)}

CollectArgNames == {"self", "a", "b"}
CollectKwNames == {"a", "b"}
CollectPropNames == {"a", "b", "z"}

\* an explicit args schema (a dict spec) declaring the properties P
ObjectSchema(P) ==
    PyDict("type" :> PyStr("object") @@
           "properties" :> PyDict([n \in P |-> PyDict("type" :> PyStr("integer"))]))

\* the args schemas: those declaring properties, and a '$ref' that has none
CollectSchemas ==
    {ObjectSchema(P) : P \in SUBSET CollectPropNames}
    \cup {PyDict("$ref" :> PyStr(RefOf("a")))}

\* the annotation of a function with the given parameters and args schema
CollectAnnotation(arg_names, args_schema) ==
    Annotation_create(PyFunction(arg_names, PyNone, PyNone, PyNone),
                      TestSchema, args_schema, PyNone, FALSE).ret

InitCollect ==
    /\ pc = "collect_properties"
    /\ given = PyNone
    /\ decoration = PyNone
    /\ annotation = PyNone
    /\ NoCall
    /\ NoWraps
    /\ op_in \in {[annotation |-> CollectAnnotation(s, a), call_args |-> ca,
                    call_kwargs |-> kw] :
                       s \in InjSeqsUpTo(CollectArgNames, MaxParams),
                       a \in CollectSchemas,
                       ca \in SeqsUpTo(CallValues, MaxPos),
                       kw \in DictsOver(CollectKwNames, CallValues)}
    /\ op_out = PyNone

ApplyCollect ==
    /\ pc = "collect_properties"
    /\ op_out' = collect_properties(op_in.annotation, op_in.call_args,
                                    op_in.call_kwargs)
    /\ pc' = "collected_properties"
    /\ UNCHANGED <<given, decoration, annotation, callVars, op_in, wrapVars, failures>>

NextCollect == ApplyCollect

SpecCollect == InitCollect /\ [][NextCollect]_vars

\* the annotation under check declares properties in its args schema
DeclaresProperties == "properties" \in DOMAIN op_in.annotation.v.args_schema.v

DeclaredProperties == DOMAIN op_in.annotation.v.args_schema.v["properties"].v

\* the index of a declared name in arg_names
IndexOf(name) ==
    CHOOSE i \in 1..Len(op_in.annotation.v.arg_names) :
        op_in.annotation.v.arg_names[i] = name

\* C5: collect_properties returns, for each declared name at index i that is
\* a key of the args schema's properties, call_args[i] if i is within
\* call_args, else call_kwargs[name] if present, else no entry; and nothing
\* else.
C5_CollectedProperties ==
    (pc = "collected_properties" /\ DeclaresProperties) =>
        LET keys == {n \in Range(op_in.annotation.v.arg_names)
                              \cap DeclaredProperties :
                        \/ IndexOf(n) <= Len(op_in.call_args)
                        \/ n \in DOMAIN op_in.call_kwargs}
        IN  op_out = Return(PyDict(
                [n \in keys |-> IF IndexOf(n) <= Len(op_in.call_args)
                                THEN op_in.call_args[IndexOf(n)]
                                ELSE op_in.call_kwargs[n]]))

\* f(a, b) declaring a and b, called with one positional and b by keyword
C5_Witness ==
    /\ pc = "collected_properties"
    /\ op_in.annotation.v.arg_names = <<"a", "b">>
    /\ DeclaresProperties
    /\ DeclaredProperties = {"a", "b", "z"}
    /\ op_in.call_args = <<PyStr("foo")>>
    /\ op_in.call_kwargs = ("b" :> PyBool(TRUE))
    /\ op_out = Return(PyDict("a" :> PyStr("foo") @@ "b" :> PyBool(TRUE)))

\* C6: when the args schema declares properties, collect_properties returns
\* no key that the schema does not declare, and does not raise, whatever is
\* supplied (in particular when a declared argument is supplied neither
\* positionally nor by keyword).
C6_OnlyDeclaredNeverRaises ==
    (pc = "collected_properties" /\ DeclaresProperties) =>
        /\ op_out.exc = "none"
        /\ op_out.ret.t = "dict"
        /\ DOMAIN op_out.ret.v \subseteq DeclaredProperties

\* f(a, b) declaring only b, called with a alone: b is supplied in neither
\* way and a is not declared by the schema
C6_Witness ==
    /\ pc = "collected_properties"
    /\ op_in.annotation.v.arg_names = <<"a", "b">>
    /\ DeclaresProperties
    /\ DeclaredProperties = {"b"}
    /\ op_in.call_args = <<PyInt(1)>>
    /\ op_in.call_kwargs = EmptyDict
    /\ op_out = Return(PyDict(EmptyDict))

\* a declared name of the schema is supplied both positionally and by keyword
SuppliedTwice(i) ==
    /\ i <= Len(op_in.call_args)
    /\ op_in.annotation.v.arg_names[i] \in DeclaredProperties
    /\ op_in.annotation.v.arg_names[i] \in DOMAIN op_in.call_kwargs

\* C7 as stated: a name supplied both positionally and by keyword is
\* extracted with the keyword value.
C7_KeywordPrecedence ==
    (pc = "collected_properties" /\ DeclaresProperties) =>
        \A i \in 1..Len(op_in.annotation.v.arg_names) :
            SuppliedTwice(i) =>
                /\ op_out.exc = "none"
                /\ op_out.ret.v[op_in.annotation.v.arg_names[i]] =
                       op_in.call_kwargs[op_in.annotation.v.arg_names[i]]

\* C7 amended: a name supplied both positionally and by keyword is extracted
\* with the positional value; the keyword value is ignored.
C7_PositionalPrecedence ==
    (pc = "collected_properties" /\ DeclaresProperties) =>
        \A i \in 1..Len(op_in.annotation.v.arg_names) :
            SuppliedTwice(i) =>
                /\ op_out.exc = "none"
                /\ op_out.ret.v[op_in.annotation.v.arg_names[i]] =
                       op_in.call_args[i]

\* f(a) called as f('foo', a=1)
C7_Witness ==
    /\ pc = "collected_properties"
    /\ op_in.annotation.v.arg_names = <<"a">>
    /\ DeclaresProperties
    /\ SuppliedTwice(1)
    /\ op_in.call_args = <<PyStr("foo")>>
    /\ op_in.call_kwargs = ("a" :> PyInt(1))
    /\ op_out = Return(PyDict("a" :> PyStr("foo")))

-----------------------------------------------------------------------------
(* Decorating a function with annotate and calling the wrapper *)

FuncParamPool == <<"a", "b", "c", "d">>

\* parameter lists: f(a, b, ...) and method(self, a, ...)
FuncArgNames ==
    {SubSeq(FuncParamPool, 1, n) : n \in 0..MaxFuncParams}
    \cup {<<"self">> \o SubSeq(FuncParamPool, 1, n - 1) : n \in 1..MaxFuncParams}

Functions ==
    {PyFunction(s, PyNone, PyNone, DefaultValues(k)) :
        s \in FuncArgNames, k \in 0..MaxFuncParams}

\* what gets decorated: plain functions, objects whose class defines
\* __call__(self, ...), and something that is not callable
Decoratees ==
    {f \in Functions : f.v.default_values = PyNone
                       \/ Len(f.v.default_values.v) < Len(f.v.arg_names)
                       \/ (Len(f.v.default_values.v) = Len(f.v.arg_names)
                           /\ "self" \notin Range(f.v.arg_names))}
    \cup {PyCallable(f) : f \in {g \in Functions :
                                    /\ g.v.arg_names # <<>>
                                    /\ g.v.arg_names[1] = "self"
                                    /\ g.v.default_values = PyNone}}
    \cup {PyObject("not callable")}

\* (args, required_args) as given to annotate
ArgsSpecs ==
    {<<UNSET, PyNone>>,
     <<PyNone, PyNone>>,
     <<PyStr("a"), PyNone>>,
     <<PyDict("type" :> PyStr("object") @@
              "properties" :> PyDict("a" :> PyDict("type" :> PyStr("string"))) @@
              "required" :> PyList(<<"a">>)), PyNone>>,
     <<PyList(<<"a", "b">>), PyNone>>,
     <<PyList(<<"a", "b">>), PyList(<<"a">>)>>,
     <<PyList(<<"bad">>), PyNone>>,
     <<PyInt(1), PyNone>>,
     <<PyDict("type" :> PyStr("object") @@
              "properties" :> PyDict("a" :> PyDict("$ref" :> PyStr(RefOf("bad"))))),
       PyNone>>}

\* what is given as schema: the Schema of the tests, or its raw dict
Schemas == {TestSchema, RawSchema}

ResultSpecs ==
    {PyNone, PyStr("result"), PyStr("bad"),
     PyDict("$ref" :> PyStr(RefOf("bad")))}

CallKwNames == {"a", "b", "c"}

CallKwargs ==
    {d \in DictsOver(CallKwNames, CallValues) :
        Cardinality(DOMAIN d) <= MaxCallKw}

\* what the wrapped callable may return
ReturnValues == {PyInt(0), PyInt(100)}

Init ==
    /\ pc = "start"
    /\ given = PyNone
    /\ decoration = PyNone
    /\ annotation = PyNone
    /\ NoCall
    /\ NoWraps
    /\ NoOp

\* @annotate(schema, args=..., required_args=..., result=..., is_method=...)
\* applied to a function
Decorate ==
    /\ pc = "start"
    /\ \E func \in Decoratees, spec \in ArgsSpecs, result \in ResultSpecs,
          is_method \in BOOLEAN, schema \in Schemas :
          LET made == annotate(schema, spec[1], spec[2], result,
                               is_method, func)
          IN  /\ given' = [schema |-> schema, args |-> spec[1],
                           required_args |-> spec[2], result |-> result,
                           is_method |-> is_method, func |-> func]
              /\ IF made.exc = "none"
                 THEN /\ annotation' = made.ret
                      /\ decoration' = Return(Wrapper(func))
                      /\ pc' = "idle"
                 ELSE /\ annotation' = PyNone
                      /\ decoration' = made
                      /\ pc' = "failed"
    /\ UNCHANGED <<callVars, op_in, op_out, wrapVars, failures>>

\* the caller calls wrapper(*args, **kwargs)
Call ==
    /\ pc = "idle"
    /\ \E a \in SeqsUpTo(CallValues, MaxCallPos), kw \in CallKwargs :
          /\ args' = a
          /\ kwargs' = kw
    /\ properties' = PyNone
    /\ validated' = {}
    /\ calls' = 0
    /\ received' = PyNone
    /\ func_result' = PyNone
    /\ outcome' = PyNone
    /\ pc' = "wrapper_args"
    /\ UNCHANGED <<given, decoration, annotation, op_in, op_out, wrapVars, failures>>

\* the wrapper filling the extracted values into the annotation's args schema
CheckArgsWritingSchema ==
    /\ pc = "wrapper_args"
    /\ IF annotation.v.args_schema # PyNone
       THEN LET collected == collect_properties(annotation, args, kwargs)
                errors == ValidationErrors(given.schema, collected.ret,
                                           annotation.v.args_schema)
            IN  IF collected.exc # "none"
                THEN /\ outcome' = collected
                     /\ pc' = "raised"
                     /\ UNCHANGED <<properties, validated, annotation>>
                ELSE /\ properties' = collected.ret
                     /\ annotation' =
                            [annotation EXCEPT !.v.args_schema =
                                PyDict(DictSet(@.v, "default", collected.ret))]
                     /\ validated' = validated \cup {"args"}
                     /\ IF errors = {}
                        THEN pc' = "wrapper_call" /\ UNCHANGED outcome
                        ELSE /\ \E e \in errors : outcome' = Raise(e)
                             /\ pc' = "raised"
       ELSE /\ pc' = "wrapper_call"
            /\ UNCHANGED <<properties, validated, outcome, annotation>>
    /\ UNCHANGED <<given, decoration, args, kwargs, calls, received,
                   func_result, op_in, op_out, wrapVars, failures>>

\* the wrapper going on to call func whatever the argument validation found
CheckArgsIgnoringErrors ==
    /\ pc = "wrapper_args"
    /\ IF annotation.v.args_schema # PyNone
       THEN LET collected == collect_properties(annotation, args, kwargs)
            IN  IF collected.exc # "none"
                THEN /\ outcome' = collected
                     /\ pc' = "raised"
                     /\ UNCHANGED <<properties, validated>>
                ELSE /\ properties' = collected.ret
                     /\ validated' = validated \cup {"args"}
                     /\ pc' = "wrapper_call"
                     /\ UNCHANGED outcome
       ELSE /\ pc' = "wrapper_call"
            /\ UNCHANGED <<properties, validated, outcome>>
    /\ UNCHANGED <<given, decoration, annotation, args, kwargs, calls, received,
                   func_result, op_in, op_out, wrapVars, failures>>

\* wrapper: "if annotation.args_schema is not None: collect, validate"
CheckArgs ==
    /\ pc = "wrapper_args"
    /\ IF annotation.v.args_schema # PyNone
       THEN LET collected == collect_properties(annotation, args, kwargs)
                errors == ValidationErrors(given.schema, collected.ret,
                                           annotation.v.args_schema)
            IN  IF collected.exc # "none"
                THEN /\ outcome' = collected
                     /\ pc' = "raised"
                     /\ UNCHANGED <<properties, validated>>
                ELSE /\ properties' = collected.ret
                     /\ validated' = validated \cup {"args"}
                     /\ IF errors = {}
                        THEN pc' = "wrapper_call" /\ UNCHANGED outcome
                        ELSE /\ \E e \in errors : outcome' = Raise(e)
                             /\ pc' = "raised"
       ELSE /\ pc' = "wrapper_call"
            /\ UNCHANGED <<properties, validated, outcome>>
    /\ UNCHANGED <<given, decoration, annotation, args, kwargs, calls, received,
                   func_result, op_in, op_out, wrapVars, failures>>

\* the wrapper calling func(*args), the keyword arguments dropped
InvokeFuncWithoutKwargs ==
    /\ pc = "wrapper_call"
    /\ IF BindOK(decoration.ret.v._decorated, args, EmptyDict)
       THEN /\ calls' = calls + 1
            /\ received' = [args |-> args, kwargs |-> EmptyDict]
            /\ \E r \in ReturnValues : func_result' = r
            /\ pc' = "wrapper_result"
            /\ UNCHANGED outcome
       ELSE /\ outcome' = Raise("TypeError")
            /\ pc' = "raised"
            /\ UNCHANGED <<calls, received, func_result>>
    /\ UNCHANGED <<given, decoration, annotation, args, kwargs, properties, validated,
                   op_in, op_out, wrapVars, failures>>

\* wrapper: "result = func(*args, **kwargs)"
InvokeFunc ==
    /\ pc = "wrapper_call"
    /\ IF BindOK(decoration.ret.v._decorated, args, kwargs)
       THEN /\ calls' = calls + 1
            /\ received' = [args |-> args, kwargs |-> kwargs]
            /\ \E r \in ReturnValues : func_result' = r
            /\ pc' = "wrapper_result"
            /\ UNCHANGED outcome
       ELSE /\ outcome' = Raise("TypeError")
            /\ pc' = "raised"
            /\ UNCHANGED <<calls, received, func_result>>
    /\ UNCHANGED <<given, decoration, annotation, args, kwargs, properties, validated,
                   op_in, op_out, wrapVars, failures>>

\* the wrapper validating the result but returning it whatever was found
CheckResultIgnoringErrors ==
    /\ pc = "wrapper_result"
    /\ IF annotation.v.result_schema # PyNone
       THEN validated' = validated \cup {"result"}
       ELSE UNCHANGED validated
    /\ outcome' = Return(func_result)
    /\ pc' = "returned"
    /\ UNCHANGED <<given, decoration, annotation, args, kwargs, properties, calls,
                   received, func_result, op_in, op_out, wrapVars, failures>>

\* wrapper: "if annotation.result_schema is not None: validate" and
\* "return result"
CheckResult ==
    /\ pc = "wrapper_result"
    /\ IF annotation.v.result_schema # PyNone
       THEN LET errors == ValidationErrors(given.schema, func_result,
                                           annotation.v.result_schema)
            IN  /\ validated' = validated \cup {"result"}
                /\ IF errors = {}
                   THEN outcome' = Return(func_result) /\ pc' = "returned"
                   ELSE /\ \E e \in errors : outcome' = Raise(e)
                        /\ pc' = "raised"
       ELSE /\ outcome' = Return(func_result)
            /\ pc' = "returned"
            /\ UNCHANGED validated
    /\ UNCHANGED <<given, decoration, annotation, args, kwargs, properties, calls,
                   received, func_result, op_in, op_out, wrapVars, failures>>

\* a wrapper that a call-time exception leaves unusable
FinishBrokenByError ==
    /\ pc \in {"returned", "raised"}
    /\ pc' = IF pc = "raised" THEN "failed" ELSE "idle"
    /\ args' = <<>>
    /\ kwargs' = EmptyDict
    /\ properties' = PyNone
    /\ validated' = {}
    /\ calls' = 0
    /\ received' = PyNone
    /\ func_result' = PyNone
    /\ outcome' = PyNone
    /\ failures' = IF outcome.exc = "ValidationError" /\ failures < MaxFailures
                   THEN failures + 1 ELSE failures
    /\ UNCHANGED <<given, decoration, annotation, op_in, op_out, wrapVars>>

\* the caller has the value or the exception; the wrapper can be called again
Finish ==
    /\ pc \in {"returned", "raised"}
    /\ pc' = "idle"
    /\ args' = <<>>
    /\ kwargs' = EmptyDict
    /\ properties' = PyNone
    /\ validated' = {}
    /\ calls' = 0
    /\ received' = PyNone
    /\ func_result' = PyNone
    /\ outcome' = PyNone
    /\ failures' = IF outcome.exc = "ValidationError" /\ failures < MaxFailures
                   THEN failures + 1 ELSE failures
    /\ UNCHANGED <<given, decoration, annotation, op_in, op_out, wrapVars>>

Next ==
    \/ Decorate
    \/ Call
    \/ CheckArgs
    \/ InvokeFunc
    \/ CheckResult
    \/ Finish

Spec == Init /\ [][Next]_vars

\* the wrapper is past its argument check and the collected properties do not
\* conform to the args schema
ArgsFailValidation ==
    /\ "args" \in validated
    /\ ValidationErrors(TestSchema, properties, annotation.v.args_schema) # {}

\* C1: with an args schema, whenever the properties extracted from a call
\* fail validation against it, the call raises the validation error and the
\* wrapped callable is not executed for that call.
C1_InvalidArgsNeverReachFunc ==
    ArgsFailValidation =>
        /\ annotation.v.args_schema # PyNone
        /\ pc = "raised"
        /\ outcome.exc \in ValidationErrors(TestSchema, properties,
                                             annotation.v.args_schema)
        /\ calls = 0
        /\ received = PyNone
        /\ func_result = PyNone

\* f(a, b) with the derived schema called as f('foo', 'foo'): b is no boolean
C1_Witness ==
    /\ pc = "raised"
    /\ annotation.v.arg_names = <<"a", "b">>
    /\ args = <<PyStr("foo"), PyStr("foo")>>
    /\ ArgsFailValidation
    /\ outcome = Raise("ValidationError")
    /\ calls = 0

\* the extracted arguments of the call in progress pass the args schema
ArgsPass ==
    \/ annotation.v.args_schema = PyNone
    \/ /\ collect_properties(annotation, args, kwargs).exc = "none"
       /\ ValidationErrors(TestSchema,
                           collect_properties(annotation, args, kwargs).ret,
                           annotation.v.args_schema) = {}

\* the value the wrapped callable returned passes the result schema
ResultPass ==
    \/ annotation.v.result_schema = PyNone
    \/ ValidationErrors(TestSchema, func_result,
                        annotation.v.result_schema) = {}

\* C2: every call whose extracted arguments pass the args schema and whose
\* return value passes the result schema invokes the wrapped callable exactly
\* once with the positional and keyword arguments the caller passed, and
\* returns exactly the value the wrapped callable returned.
C2_ValidCallPassesThrough ==
    /\ (/\ pc \in {"returned", "raised"}
        /\ ArgsPass
        /\ BindOK(decoration.ret.v._decorated, args, kwargs))
       => /\ calls = 1
          /\ received = [args |-> args, kwargs |-> kwargs]
          /\ func_result \in ReturnValues
          /\ ResultPass => /\ pc = "returned"
                           /\ outcome = Return(func_result)
    /\ pc = "returned"
       => /\ calls = 1
          /\ received = [args |-> args, kwargs |-> kwargs]
          /\ outcome = Return(func_result)

\* f(a, b=0) with derived args schema and result schema 'result', called as
\* f('foo', b=True), has returned the 0 that f returned
C2_Witness ==
    /\ pc = "returned"
    /\ annotation.v.arg_names = <<"a", "b">>
    /\ annotation.v.args_schema # PyNone
    /\ annotation.v.result_schema # PyNone
    /\ args = <<PyStr("foo")>>
    /\ kwargs = ("b" :> PyBool(TRUE))
    /\ validated = {"args", "result"}
    /\ calls = 1
    /\ outcome = Return(PyInt(0))

\* C3: with a result schema the return value is validated after the wrapped
\* callable has run and before the wrapper returns; a value that does not
\* conform makes the call raise a validation error instead of returning it,
\* the callable having run exactly once; without a result schema the return
\* value is never validated.
C3_ResultValidation ==
    /\ "result" \in validated
       => /\ annotation.v.result_schema # PyNone
          /\ calls = 1
          /\ pc \in {"returned", "raised"}
    /\ (pc = "returned" /\ annotation.v.result_schema # PyNone)
       => /\ "result" \in validated
          /\ ResultPass
    /\ (/\ pc \in {"returned", "raised"}
        /\ calls >= 1
        /\ annotation.v.result_schema # PyNone
        /\ ~ResultPass)
       => /\ pc = "raised"
          /\ "result" \in validated
          /\ outcome.exc \in ValidationErrors(TestSchema, func_result,
                                               annotation.v.result_schema)
          /\ calls = 1
    /\ (pc \notin {"start", "failed"} /\ annotation.v.result_schema = PyNone)
       => "result" \notin validated

\* the wrapped callable ran once and returned 100, which exceeds the maximum
\* of 'result': the call raised
C3_Witness ==
    /\ pc = "raised"
    /\ annotation.v.result_schema = PyDict("$ref" :> PyStr("#/definitions/result"))
    /\ calls = 1
    /\ func_result = PyInt(100)
    /\ "result" \in validated
    /\ outcome = Raise("ValidationError")

-----------------------------------------------------------------------------
(* doctor/_util.py: with_wraps and get_wrapped on a stack of decorators.   *)
(* Callables are objects of a heap, named by their index, because         *)
(* with_wraps sets an attribute on the object the decorator returned.     *)

\* the decorators that get augmented with with_wraps: foo and bar() of the
\* tests, which return a new wrapper that calls func, and one that returns
\* the callable it was given
Decorators ==
    {[kind |-> "wrapping", layer |-> l, arguments |-> a] :
        l \in {"foo", "bar"}, a \in BOOLEAN}
    \cup {[kind |-> "identity", layer |-> "same", arguments |-> a] :
              a \in BOOLEAN}

\* decorator(func): the heap after it ran and the callable it returned.  A
\* wrapping decorator makes "@functools.wraps(func) def wrapper", which
\* copies func's attributes (_wraps among them) to the new wrapper.
RunDecorator(h, decorator, func) ==
    IF decorator.kind = "wrapping"
    THEN [heap |-> Append(h, [layer |-> decorator.layer, inner |-> func,
                              wraps |-> h[func].wraps]),
          result |-> Len(h) + 1]
    ELSE [heap |-> h, result |-> func]

\* with_wraps leaving the decorator as it is (no _wraps set)
WithWrapsNoBackReference(h, decorator, func) ==
    RunDecorator(h, decorator, func)

\* with_wraps(decorator)(func), and with_wraps(arguments=True)(decorator)()
\* (func), which ends in the same branch: "wrapped_func = decorator(func);
\* wrapped_func._wraps = func; return wrapped_func"
WithWraps(h, decorator, func) ==
    LET made == RunDecorator(h, decorator, func)
    IN  [heap |-> [made.heap EXCEPT ![made.result].wraps = func],
         result |-> made.result]

InitWraps ==
    /\ pc = "stack"
    /\ given = PyNone
    /\ decoration = PyNone
    /\ annotation = PyNone
    /\ NoCall
    /\ NoOp
    /\ NoWraps

\* one more decorator is put on top of the stack
ApplyDecorator ==
    /\ pc = "stack"
    /\ Len(stack) < MaxLayers
    /\ \E decorator \in Decorators :
          LET made == WithWraps(heap, decorator, top)
          IN  /\ heap' = made.heap
              /\ top' = made.result
              /\ stack' = Append(stack, decorator)
    /\ UNCHANGED <<pc, given, decoration, annotation, callVars, failures, op_in, op_out, cur,
                   trace>>

\* get_wrapped(top) is called
StartGetWrapped ==
    /\ pc = "stack"
    /\ pc' = "get_wrapped"
    /\ cur' = top
    /\ UNCHANGED <<given, decoration, annotation, callVars, failures, op_in, op_out, heap, top,
                   trace, stack>>

\* get_wrapped: "while hasattr(func, '_wraps'): func = func._wraps"
GetWrappedLoop ==
    /\ pc = "get_wrapped"
    /\ heap[cur].wraps # 0
    /\ cur' = heap[cur].wraps
    /\ UNCHANGED <<pc, given, decoration, annotation, callVars, failures, op_in, op_out, heap,
                   top, trace, stack>>

\* get_wrapped: "return func"
GetWrappedReturn ==
    /\ pc = "get_wrapped"
    /\ heap[cur].wraps = 0
    /\ pc' = "got_wrapped"
    /\ UNCHANGED <<given, decoration, annotation, callVars, failures, op_in, op_out, heap, top,
                   cur, trace, stack>>

\* top(results) is called
StartCall ==
    /\ pc = "stack"
    /\ pc' = "calling"
    /\ cur' = top
    /\ trace' = <<>>
    /\ UNCHANGED <<given, decoration, annotation, callVars, failures, op_in, op_out, heap, top,
                   stack>>

\* a layer runs: "results.append(s.<layer>); return func(results)", and the
\* original function "results.append(s.baz); return results"
RunLayer ==
    /\ pc = "calling"
    /\ trace' = Append(trace, heap[cur].layer)
    /\ IF heap[cur].inner # 0
       THEN cur' = heap[cur].inner /\ pc' = "calling"
       ELSE cur' = cur /\ pc' = "called"
    /\ UNCHANGED <<given, decoration, annotation, callVars, failures, op_in, op_out, heap, top,
                   stack>>

NextWraps ==
    \/ ApplyDecorator
    \/ StartGetWrapped
    \/ GetWrappedLoop
    \/ GetWrappedReturn
    \/ StartCall
    \/ RunLayer

SpecWraps == InitWraps /\ [][NextWraps]_vars

\* every decorator of the stack returned a wrapper of its own
AllWrapping == \A i \in 1..Len(stack) : stack[i].kind = "wrapping"

\* the layers of the stack, outermost first
LayersOutermostFirst ==
    [i \in 1..Len(stack) |-> stack[Len(stack) + 1 - i].layer]

\* C11: for a stack of decorators that each record a back-reference to the
\* callable they wrapped, get_wrapped of the outermost wrapper is the
\* innermost original callable (its argument itself when that has no
\* back-reference), and calling the outermost wrapper runs every layer in
\* nesting order, outermost first, ending with the original callable.
C11_ChainFollowing ==
    AllWrapping =>
        /\ pc = "got_wrapped" =>
               /\ cur = 1
               /\ heap[cur] = Original
               /\ stack = <<>> => cur = top
        /\ pc = "called" => trace = LayersOutermostFirst \o <<"baz">>

\* three stacked wrappers have been called: foo, bar, foo, then baz
C11_Witness ==
    /\ pc = "called"
    /\ AllWrapping
    /\ Len(stack) = 3
    /\ top = 4
    /\ trace = <<"foo", "bar", "foo", "baz">>

\* following _wraps n times from a callable (0 once there is none to follow)
RECURSIVE FollowWraps(_, _)
FollowWraps(id, n) ==
    IF n = 0 \/ id = 0 THEN id ELSE FollowWraps(heap[id].wraps, n - 1)

\* no callable reaches itself by following _wraps
NoWrapsCycle ==
    \A id \in 1..Len(heap) : \A n \in 1..Len(heap) : FollowWraps(id, n) # id

\* C19: for every stack of decorators augmented with with_wraps, whatever
\* each of them returns, the _wraps links never form a cycle, so get_wrapped
\* terminates, and what it returns has no _wraps back-reference.
C19_GetWrappedTerminates ==
    /\ NoWrapsCycle
    /\ pc = "got_wrapped" => heap[cur].wraps = 0

-----------------------------------------------------------------------------
(* Calls of the wrapper after earlier calls failed *)

\* C12: a call-time validation error aborts only that invocation: after
\* earlier calls that raised validation errors the wrapper is still callable,
\* and a call with valid arguments and a valid result runs the wrapped
\* callable once and returns its result, as with no earlier failure.
C12_ReusableAfterErrors ==
    failures > 0 =>
        /\ pc \in {"idle", "wrapper_args", "wrapper_call", "wrapper_result",
                    "returned", "raised"}
        /\ decoration.exc = "none"
        /\ annotation.t = "Annotation"
        /\ (/\ pc \in {"returned", "raised"}
            /\ ArgsPass
            /\ BindOK(decoration.ret.v._decorated, args, kwargs)
            /\ ResultPass)
           => /\ pc = "returned"
              /\ calls = 1
              /\ received = [args |-> args, kwargs |-> kwargs]
              /\ outcome = Return(func_result)

\* after two failed calls, f('foo', b=True) has run f and returned its 0
C12_Witness ==
    /\ failures = 2
    /\ pc = "returned"
    /\ annotation.v.arg_names = <<"a", "b">>
    /\ args = <<PyStr("foo")>>
    /\ kwargs = ("b" :> PyBool(TRUE))
    /\ validated = {"args", "result"}
    /\ calls = 1
    /\ outcome = Return(PyInt(0))

-----------------------------------------------------------------------------
(* Errors while decorating *)

\* a spec that names a definition the schema does not have
NamesMissingDefinition(spec) ==
    \/ spec.t = "str" /\ spec.v \notin DefinitionNames
    \/ spec.t = "list" /\ ~(Range(spec.v) \subseteq DefinitionNames)

\* a spec that is no str, dict, list, None or (for args) left out
UnsupportedSpec(spec) ==
    spec.t \notin {"str", "dict", "list", "NoneType", "Unset"}

\* the parameter names an args schema is derived from when args is left out
AutoDerivedNames(g) ==
    IF g.func.t = "function"
    THEN DeclaredNames(g.func.v.arg_names, g.is_method)
    ELSE DeclaredNames(g.func.v.__call__.v.arg_names, TRUE)

\* the decoration-time failures: a missing definition in an explicit or
\* derived spec, an unsupported spec, a target that is not callable, a schema
\* that is no Schema
DecorationMustFail(g) ==
    \/ NamesMissingDefinition(g.args) \/ NamesMissingDefinition(g.result)
    \/ UnsupportedSpec(g.args) \/ UnsupportedSpec(g.result)
    \/ ~callable(g.func)
    \/ g.schema.t # "Schema"
    \/ /\ g.args = UNSET
       /\ callable(g.func)
       /\ ~(Range(AutoDerivedNames(g)) \subseteq DefinitionNames)

DecorationFailed ==
    /\ pc = "failed"
    /\ decoration.exc # "none"
    /\ decoration.ret = PyNone
    /\ annotation = PyNone

-----------------------------------------------------------------------------
(* Callables without parameters to validate *)

\* annotate got no args spec and the target declares no parameter, or only
\* the leading one of a method
NothingToValidate ==
    /\ pc # "start"
    /\ given.args = UNSET
    /\ callable(given.func)
    /\ AutoDerivedNames(given) = <<>>

\* C14: for a callable that declares no parameter (or only the leading self
\* name of a method), annotate without an args spec gives an annotation whose
\* args_schema is None (the decoration fails only for a bad result spec or
\* schema), and calls of the wrapper extract and validate no arguments.
C14_NoParamsNoArgsSchema ==
    NothingToValidate =>
        /\ pc = "failed" => \/ NamesMissingDefinition(given.result)
                            \/ given.schema.t # "Schema"
        /\ pc # "failed" =>
              /\ annotation.v.args_schema = PyNone
              /\ properties = PyNone
              /\ "args" \notin validated
              /\ pc = "raised" =>
                    \/ outcome.exc = "TypeError" /\ calls = 0
                    \/ "result" \in validated

\* method(self) decorated with is_method=True and result='result' was called
\* as method(obj): no argument was validated, the result was
C14_Witness ==
    /\ pc = "returned"
    /\ given.args = UNSET
    /\ given.is_method
    /\ given.func.t = "function"
    /\ given.func.v.arg_names = <<"self">>
    /\ annotation.v.args_schema = PyNone
    /\ Len(args) = 1
    /\ kwargs = EmptyDict
    /\ calls = 1
    /\ validated = {"result"}

-----------------------------------------------------------------------------
(* Callable objects *)

\* C15: for an object with __call__ the annotation has is_method true whatever
\* is_method was given, its func and arg_names are those of __call__ (the
\* leading self included), and a derived args schema has properties and
\* required for exactly the names after self (None when there are none); the
\* given is_method never makes the decoration fail.
C15_CallableObject ==
    (pc # "start" /\ given.func.t = "instance") =>
        LET call == given.func.v.__call__
        IN  /\ (pc = "failed" /\ given.args = UNSET)
                  => \/ NamesMissingDefinition(given.result)
                     \/ given.schema.t # "Schema"
            /\ pc # "failed" =>
                  /\ annotation.v.is_method = TRUE
                  /\ annotation.v.annotated_func = given.func
                  /\ annotation.v.func = call
                  /\ annotation.v.arg_names = call.v.arg_names
                  /\ annotation.v.arg_names[1] = "self"
                  /\ given.args = UNSET =>
                        IF Len(call.v.arg_names) = 1
                        THEN annotation.v.args_schema = PyNone
                        ELSE LET derived == annotation.v.args_schema.v
                             IN  /\ DOMAIN derived["properties"].v
                                        = Range(Tail(call.v.arg_names))
                                 /\ "self" \notin DOMAIN derived["properties"].v
                                 /\ derived["required"].v
                                        = Tail(call.v.arg_names)

\* an object with __call__(self, a), decorated with is_method=False and no
\* args spec, called as obj(a='foo')
C15_Witness ==
    /\ pc = "returned"
    /\ given.func.t = "instance"
    /\ given.func.v.__call__.v.arg_names = <<"self", "a">>
    /\ given.is_method = FALSE
    /\ given.args = UNSET
    /\ annotation.v.is_method = TRUE
    /\ DOMAIN annotation.v.args_schema.v["properties"].v = {"a"}
    /\ args = <<>>
    /\ kwargs = ("a" :> PyStr("foo"))
    /\ calls = 1

-----------------------------------------------------------------------------
(* What calls leave alone *)

-----------------------------------------------------------------------------
(* Extraction of the arguments *)

\* C17: whatever args spec annotate accepted, a call that raises does so after
\* the arguments were extracted (in validation, or in the wrapped callable's
\* own call), never in the extraction itself: no KeyError for an args schema
\* without 'properties'.
C17_ExtractionNeverFails ==
    (pc = "raised" /\ annotation.v.args_schema # PyNone) =>
        /\ "args" \in validated
        /\ outcome.exc # "KeyError"

-----------------------------------------------------------------------------
(* The values that are validated and the values that are passed *)

\* C18: in every call that binds to the wrapped callable's parameters, each
\* value extracted under a name p for validation is the value the wrapped
\* callable receives for its parameter p.
C18_ValidatedWhatIsPassed ==
    (/\ pc \in {"wrapper_call", "wrapper_result", "returned", "raised"}
     /\ properties # PyNone
     /\ BindOK(decoration.ret.v._decorated, args, kwargs))
    => \A p \in DOMAIN properties.v :
          properties.v[p]
             = ReceivedFor(decoration.ret.v._decorated, args, kwargs, p)

====
